---- MODULE Spec2Model ----
(***************************************************************************)
(* Model of the dialog/cart/escalation core of the TropicHouse assistant:  *)
(*   chat_context.py  ChatContext (dialog state, cart)                     *)
(*   bot_agent.py     tool actions, classify_intent, run_unified_agent     *)
(*   main.py          on_message, the debounce queue, the turn handlers    *)
(*                                                                         *)
(* Strings are modelled as sequences of characters (plant names) or of     *)
(* text chunks (messages), so that lower(), strip(), "in" and join() are   *)
(* computed rather than assumed.                                           *)
(***************************************************************************)
EXTENDS Integers, Sequences, FiniteSets, TLC

VARIABLES
    now,            \* the clock, in days
    chat_contexts,  \* chat_id -> ChatContext
    message_queue,  \* items put by on_message, not yet taken
    user_messages,  \* chat_id -> pending (text, image_url) pairs
    user_timers,    \* chat_id -> the live process_user_messages task
    live,           \* chat_id -> process_user_messages tasks created, not ended
    events,         \* websocket events received so far
    lastTurn,       \* what the latest turn of the running task did
    lastOracle,     \* what the collaborators answered in the latest turn
    frames,         \* where the websocket thread and the event loop stand
    gate,           \* notify_seller calls and failures seen by one session
    loop,           \* the event-loop thread, one turn's external calls, other chats' timers
    context,        \* the ChatContext the tool actions of a turn work on
    last,           \* the latest operation applied to context
    prev            \* the operation before it, when it was an add_to_cart

cartVars == <<context, last, prev>>
progVars == <<now, chat_contexts, message_queue, user_messages, user_timers,
              live, events, lastTurn, lastOracle, frames, gate, loop>>
vars == <<progVars, cartVars>>

(***************************************************************************)
(* Bounds of the model.                                                    *)
(***************************************************************************)
MaxQty == 3        \* largest quantity one cart entry may reach
MaxEvents == 3     \* inbound websocket events per behaviour
MaxTicks == 1      \* times the clock advances
MaxCalls == 3      \* messages one session takes through the escalation gate

None == "None"
\* None where the other values are strings-as-sequences, numbers, records
NoName == <<"<None>">>
NoDialog == 0
NoPlant == [id |-> 0, name |-> NoName, tech |-> FALSE]

(***************************************************************************)
(* Python string helpers over sequences.                                   *)
(***************************************************************************)
\* str.lower() on one character / chunk
LowerChar(ch) ==
    CASE ch = "F" -> "f"
      [] ch = "/START" -> "/start"
      [] ch = "REVIEW" -> "review"
      [] OTHER -> ch

\* str.lower()
Lower(s) == [i \in DOMAIN s |-> LowerChar(s[i])]

IsSpace(ch) == ch \in {" ", "\n"}

RECURSIVE LStrip(_)
LStrip(s) == IF s # <<>> /\ IsSpace(Head(s)) THEN LStrip(Tail(s)) ELSE s

RECURSIVE RStrip(_)
RStrip(s) ==
    IF s # <<>> /\ IsSpace(s[Len(s)]) THEN RStrip(SubSeq(s, 1, Len(s) - 1)) ELSE s

\* str.strip()
Strip(s) == RStrip(LStrip(s))

\* a in b  (substring test)
IsSubstring(a, b) ==
    \E i \in 0..(Len(b) - Len(a)) : SubSeq(b, i + 1, i + Len(a)) = a

(***************************************************************************)
(* chat_context.py                                                         *)
(***************************************************************************)
DialogState ==
    {"START", "ASK_SIZE", "ASK_LOCATION", "PLANT_SEARCH", "OUT_OF_STOCK",
     "ORDERING", "CART_MANAGEMENT", "CART_CHECKOUT", "UPSELL", "COMPLETED",
     "MANAGER_CALLED"}

\* ChatContext.__init__ ; created_at = datetime.now()
NewChatContext(t) ==
    [dialog_id |-> NoDialog,
     created_at |-> t,
     messages |-> <<>>,
     state |-> "START",
     desired_size |-> None,
     desired_location |-> None,
     cart |-> <<>>,
     out_of_stock_plant |-> NoPlant,
     out_of_stock_plants |-> <<>>,
     preorder_info |-> None,
     subject |-> None]

\* values of (desired_size, desired_location) a session can hold: unset, or
\* among 'floor', 'tabletop', 'any' and 'home', 'office', 'gift', 'any'
PreferenceInputs ==
    {<<None, None>>, <<"floor", None>>, <<None, "office">>, <<"tabletop", "home">>}

\* values of (out_of_stock_plant, out_of_stock_plants, preorder_info) a
\* session can hold: as constructed, and as set_out_of_stock_info leaves
\* them with one plant or a list of plants
OutOfStockInputs ==
    {<<NoPlant, <<>>, None>>,
     <<[id |-> 1, name |-> <<"F", "x">>, tech |-> TRUE], <<>>, "7-10 days">>,
     <<[id |-> 1, name |-> <<"F", "x">>, tech |-> TRUE],
       <<[id |-> 1, name |-> <<"F", "x">>, tech |-> TRUE]>>, None>>}

ExpiryDays == 7

\* ChatContext.is_expired
is_expired(ctx, t) == t > ctx.created_at + ExpiryDays

\* ChatContext.add_message (role/content only)
add_message(ctx, role, text) ==
    [ctx EXCEPT !.messages = Append(@, [role |-> role, content |-> text])]

\* ChatContext.reset_out_of_stock_state
reset_out_of_stock_state(ctx) ==
    [ctx EXCEPT !.out_of_stock_plant = NoPlant,
                !.out_of_stock_plants = <<>>,
                !.preorder_info = None]

\* ChatContext.reset_preferences
reset_preferences(ctx) ==
    [ctx EXCEPT !.desired_size = None, !.desired_location = None]

\* ChatContext.clear_cart
clear_cart(ctx) == [ctx EXCEPT !.cart = <<>>]

\* mutant of change_state: leaving OUT_OF_STOCK keeps the out-of-stock data
change_state_KeepsOutOfStock(ctx, new_state) ==
    LET c2 == IF new_state = "COMPLETED" THEN clear_cart(ctx) ELSE ctx
        c3 == IF new_state \in {"START", "PLANT_SEARCH"}
                 /\ c2.state \notin {"START", "PLANT_SEARCH", "CART_MANAGEMENT"}
              THEN reset_preferences(c2) ELSE c2
    IN  [c3 EXCEPT !.state = new_state]

\* mutant of change_state: every entry into START or PLANT_SEARCH resets the
\* preferences, whatever the state left
change_state_ResetsOnEveryEntry(ctx, new_state) ==
    LET c1 == IF ctx.state = "OUT_OF_STOCK" /\ new_state # "OUT_OF_STOCK"
              THEN reset_out_of_stock_state(ctx) ELSE ctx
        c2 == IF new_state = "COMPLETED" THEN clear_cart(c1) ELSE c1
        c3 == IF new_state \in {"START", "PLANT_SEARCH"}
              THEN reset_preferences(c2) ELSE c2
    IN  [c3 EXCEPT !.state = new_state]

\* mutant of change_state: the cart survives the transition to COMPLETED
change_state_KeepCart(ctx, new_state) ==
    LET c1 == IF ctx.state = "OUT_OF_STOCK" /\ new_state # "OUT_OF_STOCK"
              THEN reset_out_of_stock_state(ctx) ELSE ctx
        c3 == IF new_state \in {"START", "PLANT_SEARCH"}
                 /\ c1.state \notin {"START", "PLANT_SEARCH", "CART_MANAGEMENT"}
              THEN reset_preferences(c1) ELSE c1
    IN  [c3 EXCEPT !.state = new_state]

\* ChatContext.change_state
change_state(ctx, new_state) ==
    LET c1 == IF ctx.state = "OUT_OF_STOCK" /\ new_state # "OUT_OF_STOCK"
              THEN reset_out_of_stock_state(ctx) ELSE ctx
        c2 == IF new_state = "COMPLETED" THEN clear_cart(c1) ELSE c1
        c3 == IF new_state \in {"START", "PLANT_SEARCH"}
                 /\ c2.state \notin {"START", "PLANT_SEARCH", "CART_MANAGEMENT"}
              THEN reset_preferences(c2) ELSE c2
    IN  [c3 EXCEPT !.state = new_state]

\* plant.get("Название") : the name, or NoName when the record has no such key
PlantName(plant) == plant.name

\* index of the first cart entry with the given name, 0 when there is none
FirstIndexOf(cart, name) ==
    IF \E i \in DOMAIN cart : PlantName(cart[i].plant) = name
    THEN CHOOSE i \in DOMAIN cart :
            /\ PlantName(cart[i].plant) = name
            /\ \A j \in 1..(i - 1) : PlantName(cart[j].plant) # name
    ELSE 0

\* mutant of add_to_cart: a new row is appended without looking for the name
ChatContext_add_to_cart_Append(ctx, plant_data, quantity, order_type) ==
    [ctx EXCEPT !.cart = Append(@, [plant |-> plant_data,
                                    quantity |-> quantity,
                                    type |-> order_type])]

\* mutant of add_to_cart: the quantity of a present row is replaced, not summed
ChatContext_add_to_cart_Overwrite(ctx, plant_data, quantity, order_type) ==
    LET i == FirstIndexOf(ctx.cart, PlantName(plant_data))
    IN  IF i # 0
        THEN [ctx EXCEPT !.cart[i].quantity = quantity]
        ELSE [ctx EXCEPT !.cart = Append(@, [plant |-> plant_data,
                                             quantity |-> quantity,
                                             type |-> order_type])]

\* ChatContext.add_to_cart
ChatContext_add_to_cart(ctx, plant_data, quantity, order_type) ==
    LET i == FirstIndexOf(ctx.cart, PlantName(plant_data))
    IN  IF i # 0
        THEN [ctx EXCEPT !.cart[i].quantity = @ + quantity]
        ELSE [ctx EXCEPT !.cart = Append(@, [plant |-> plant_data,
                                             quantity |-> quantity,
                                             type |-> order_type])]

RECURSIVE FilterOutName(_, _)
FilterOutName(cart, plant_name) ==
    IF cart = <<>> THEN <<>>
    ELSE IF PlantName(Head(cart).plant) # plant_name
         THEN <<Head(cart)>> \o FilterOutName(Tail(cart), plant_name)
         ELSE FilterOutName(Tail(cart), plant_name)

\* ChatContext.get_cart_summary: the fixed text for an empty cart, else the
\* header with total_items (the sum of the quantities) and one line per
\* entry with its name, its quantity and the preorder annotation
get_cart_summary(ctx) ==
    IF ctx.cart = <<>>
    THEN [text |-> "cart_empty", total_items |-> 0, items_text |-> <<>>]
    ELSE LET sum[i \in 0..Len(ctx.cart)] ==
                 IF i = 0 THEN 0 ELSE sum[i - 1] + ctx.cart[i].quantity
         IN  [text |-> "summary",
              total_items |-> sum[Len(ctx.cart)],
              items_text |->
                  [i \in DOMAIN ctx.cart |->
                      [plant_name |-> IF ctx.cart[i].plant.name = NoName
                                      THEN <<"unknown plant">>
                                      ELSE ctx.cart[i].plant.name,
                       quantity |-> ctx.cart[i].quantity,
                       preorder |-> ctx.cart[i].type = "preorder"]]]

\* ChatContext.remove_from_cart
ChatContext_remove_from_cart(ctx, plant_name) ==
    [ctx EXCEPT !.cart = FilterOutName(@, plant_name)]

(***************************************************************************)
(* plant_utils.py : the catalog snapshot and the search by name.           *)
(***************************************************************************)
NameFx == <<"F", "x">>
UnknownName == <<"u">>

\* plants_data: a named record and a record without the "Название" key;
\* tech marks "в техническом горшке"
plants_data ==
    << [id |-> 1, name |-> NameFx, tech |-> TRUE],
       [id |-> 2, name |-> NoName, tech |-> FALSE] >>

Catalog == {plants_data[i] : i \in DOMAIN plants_data}

\* get_plant_name
get_plant_name(plant) ==
    IF plant.name = NoName THEN UnknownName ELSE Strip(plant.name)

\* plant.get("Название", "") as a string
TitleOf(plant) == IF plant.name = NoName THEN <<>> ELSE plant.name

\* SelectSeq with a two-argument test
RECURSIVE SelectPlants(_, _, _)
SelectPlants(plants, q, exact) ==
    IF plants = <<>> THEN <<>>
    ELSE LET p == Head(plants)
             hit == IF exact THEN Lower(get_plant_name(p)) = q
                    ELSE q # <<>> /\ IsSubstring(q, Lower(TitleOf(p)))
         IN  (IF hit THEN <<p>> ELSE <<>>) \o SelectPlants(Tail(plants), q, exact)

\* search_plants_by_name: exact matches (case-insensitive), else the records
\* whose text contains the query (is_plant_matching_query; the names of the
\* model are shorter than three characters, so prepare_query_words is empty)
search_plants_by_name(query_name) ==
    IF Strip(query_name) = <<>> THEN <<>>
    ELSE LET query_lower == Strip(Lower(query_name))
             exact_matches == SelectPlants(plants_data, query_lower, TRUE)
         IN  IF exact_matches # <<>> THEN exact_matches
             ELSE SelectPlants(plants_data, query_lower, FALSE)

(***************************************************************************)
(* bot_agent.py : the tool actions.  Each operator returns the session     *)
(* after the call, the returned text, and the numbers of notify_seller and *)
(* send_message calls it made.                                             *)
(***************************************************************************)
ToolResult(ctx, ret, notifies, sends) ==
    [ctx |-> ctx, ret |-> ret, notifies |-> notifies, sends |-> sends]

\* check_and_send_pot_suggestion: one message per plant in a technical pot
PotSuggestions(plants) == Cardinality({i \in DOMAIN plants : plants[i].tech})

\* order / preorder (the two differ in the is_preorder flag only)
order(ctx, plant, quantity, notifyOk) ==
    ToolResult(change_state(ctx, "UPSELL"),
               IF notifyOk THEN "success" ELSE "error",
               1,
               PotSuggestions(search_plants_by_name(plant)))

\* suggest_accessories
suggest_accessories(ctx) ==
    ToolResult(change_state(ctx, "UPSELL"), "accessories", 0, 0)

\* add_to_cart (tool)
add_to_cart(ctx, plant, quantity, order_type) ==
    LET plant_data == search_plants_by_name(plant)
    IN  IF plant_data = <<>>
        THEN ToolResult(ctx, "not_in_catalog", 0, 0)
        ELSE ToolResult(
                change_state(
                    ChatContext_add_to_cart(ctx, plant_data[1], quantity, order_type),
                    "CART_MANAGEMENT"),
                "added", 0, 0)

\* show_cart
show_cart(ctx) ==
    IF ctx.cart # <<>>
    THEN ToolResult(change_state(ctx, "CART_MANAGEMENT"), "summary", 0, 0)
    ELSE ToolResult(ctx, "cart_empty", 0, 0)

CartOfType(cart, t) == SelectSeq(cart, LAMBDA item : item.type = t)
PlantsOf(cart) == [i \in DOMAIN cart |-> cart[i].plant]

\* checkout_cart: items of a type other than "preorder" go to the order list
checkout_cart(ctx) ==
    IF ctx.cart = <<>>
    THEN ToolResult(ctx, "cart_empty", 0, 0)
    ELSE LET preorders == CartOfType(ctx.cart, "preorder")
             orders == SelectSeq(ctx.cart, LAMBDA item : item.type # "preorder")
             orderPlants == PlantsOf(CartOfType(ctx.cart, "order"))
         IN  ToolResult(
                change_state(clear_cart(ctx), "UPSELL"),
                "checked_out",
                (IF orders # <<>> THEN 1 ELSE 0) + (IF preorders # <<>> THEN 1 ELSE 0),
                (IF orders # <<>> THEN PotSuggestions(orderPlants) ELSE 0)
                  + (IF preorders # <<>> THEN PotSuggestions(PlantsOf(preorders)) ELSE 0))

\* the "found" test of remove_from_cart: case-insensitive substring
PlantFound(cart, plant_name) ==
    \E i \in DOMAIN cart :
        IsSubstring(Lower(plant_name), Lower(TitleOf(cart[i].plant)))

\* remove_from_cart (tool)
remove_from_cart(ctx, plant_name) ==
    IF ~PlantFound(ctx.cart, plant_name)
    THEN ToolResult(ctx, "not_found", 0, 0)
    ELSE ToolResult(
            change_state(ChatContext_remove_from_cart(ctx, plant_name),
                         "CART_MANAGEMENT"),
            "removed", 0, 0)

(***************************************************************************)
(* bot_agent.py : classify_intent, the escalation gate, run_unified_agent. *)
(* Message texts are sequences of chunks; replies are named by a string.   *)
(***************************************************************************)
\* review_request_text, one chunk
review_request_text == <<"REVIEW">>

CATEGORY_REPLIES ==
    {"live_photo", "multiple_plants", "order_question", "call_request",
     "reclamation", "ask_human", "office_plant"}

DETAILS_PREFIX ==
    {"live_photo", "multiple_plants", "order_question", "call_request",
     "reclamation", "ask_human", "office_plant"}

\* the words the classifier is told to answer with
LLMCategories ==
    {"live_photo", "multiple_plants", "order_question", "call_request",
     "pot_request", "reclamation", "ask_human", "delivery", "office_plant", "none"}

\* names bound at module level in bot_agent.py (imports, tables, functions)
BotAgentGlobals ==
    {"json", "config", "AsyncOpenAI", "plant_utils", "telegrambot", "ChatContext",
     "DialogState", "PERSONA_DESCRIPTION", "ADDRESS_INFO",
     "RESPONSE_FORMAT_INSTRUCTIONS", "Agent", "Runner", "function_tool",
     "ModelSettings", "RunContextWrapper", "logging", "re", "datetime", "logger",
     "CATEGORY_REPLIES", "DETAILS_PREFIX", "PLANT_POT_SIZE_MAPPING",
     "extract_plant_diameter", "generate_pot_link", "check_and_send_pot_suggestion",
     "classify_intent", "_make_instructions", "search", "order", "preorder",
     "suggest_accessories", "add_to_cart", "show_cart", "checkout_cart",
     "remove_from_cart", "agent", "extract_pot_size", "extract_plant_quantity",
     "is_working_hours_and_managers_available", "run_unified_agent",
     "send_accessories_message"}

\* parameters and assigned locals of classify_intent
ClassifyIntentLocals ==
    {"ctx", "text", "review_request_text", "last_message", "client",
     "system_prompt", "messages", "response", "category"}
ClassifyIntentParams == {"ctx", "text"}

\* parameters and assigned locals of run_unified_agent
RunUnifiedAgentLocals ==
    {"context", "user_message", "openai_client", "intent", "category", "quantity",
     "pot_size", "pot_link", "response", "details", "is_working_hours",
     "has_online_managers", "after_hours_message", "reply", "history", "messages",
     "result"}

\* evaluating a name that is neither a local nor a module global: NameError
NameError(name, locals) == name \notin (locals \cup BotAgentGlobals)

\* calling with a keyword the function does not declare: TypeError
TypeError(keywords, params) == ~(keywords \subseteq params)

Value(v) == [raised |-> FALSE, value |-> v]
Raised == [raised |-> TRUE, value |-> None]

\* classify_intent(ctx, text); llm is the word the classifier answers, fails
\* tells whether the completion call (line 221, outside any try) raises
classify_intent(text, llm, fails) ==
    IF Strip(text) = Strip(review_request_text) THEN Value("review_ignore")
    ELSE IF NameError("context", ClassifyIntentLocals) THEN Raised
    ELSE IF fails THEN Raised
    ELSE IF llm \notin CATEGORY_REPLIES THEN Value("none")
    ELSE Value(llm)

WorkingHoursEnd == 19

\* is_working_hours_and_managers_available: a failed query counts as nobody
is_working_hours_and_managers_available(category, hour, online, queryFails) ==
    [is_working_hours |-> hour < WorkingHoursEnd,
     has_online_managers |->
        IF category \in {"office_plant", "multiple_plants", "live_photo",
                         "ask_human", "reclamation", "order_question", "call_request"}
        THEN (IF queryFails THEN FALSE ELSE online > 0)
        ELSE FALSE]

\* result of run_unified_agent: the session, whether it raised, the returned
\* text, and the notify_seller / posted-message counts of the call
AgentResult(ctx, raised, ret, notifies, sent, exit) ==
    [ctx |-> ctx, raised |-> raised, ret |-> ret,
     notifies |-> notifies, sent |-> sent, exit |-> exit]

\* one tool call of the agent, on the session as the calls before left it
ApplyTool(ctx, call) ==
    CASE call.tool = "add_to_cart" ->
            add_to_cart(ctx, call.plant, call.quantity, call.type)
      [] call.tool = "remove_from_cart" -> remove_from_cart(ctx, call.plant)
      [] call.tool = "show_cart" -> show_cart(ctx)
      [] call.tool = "checkout_cart" -> checkout_cart(ctx)
      [] call.tool = "order" -> order(ctx, call.plant, call.quantity, call.ok)
      [] OTHER -> suggest_accessories(ctx)

\* the session after a tool call and the running counts of the turn
Accumulate(acc, r) ==
    [ctx |-> r.ctx,
     notifies |-> acc.notifies + r.notifies,
     sends |-> acc.sends + r.sends]

\* the tool calls one Runner.run makes, applied in order
RECURSIVE RunTools(_, _)
RunTools(acc, script) ==
    IF script = <<>> THEN acc
    ELSE RunTools(Accumulate(acc, ApplyTool(acc.ctx, Head(script))), Tail(script))

\* run_unified_agent, lines 622-646: the escalation with a reply; av is the
\* answer of is_working_hours_and_managers_available
Escalate(ctx, category, av) ==
    IF category \notin DETAILS_PREFIX
    THEN AgentResult(
            IF ~av.is_working_hours /\ ~av.has_online_managers
            THEN add_message(ctx, "assistant", "after_hours") ELSE ctx,
            TRUE, None, 0, 0, "KeyError")
    ELSE IF ~av.is_working_hours /\ ~av.has_online_managers
    THEN AgentResult(
            [add_message(ctx, "assistant", "after_hours") EXCEPT !.subject = category],
            FALSE, "after_hours", 1, 0, "after_hours")
    ELSE AgentResult(
            change_state(
                add_message([ctx EXCEPT !.subject = category],
                            "assistant", "category_reply"),
                "MANAGER_CALLED"),
            FALSE, "category_reply", 1, 0, "escalation")

\* run_unified_agent, lines 648-667: after Runner.run; t is the session and
\* the counts its tool calls left
AfterRunner(t, o) ==
    IF o.runnerFails
    THEN AgentResult(t.ctx, TRUE, None, t.notifies, t.sends, "runner_error")
    ELSE IF t.ctx.state = "UPSELL"
    THEN AgentResult(change_state(t.ctx, "COMPLETED"),
                     FALSE, "", t.notifies, t.sends + 1, "upsell")
    ELSE AgentResult(
            IF o.final_output # None
            THEN add_message(t.ctx, "assistant", o.final_output) ELSE t.ctx,
            FALSE, o.final_output, t.notifies, t.sends, "reply")

\* run_unified_agent from the escalation gate on (lines 612-667)
GateAndAgent(ctx, user_message, category, o) ==
    IF category # "none"
    THEN IF category \in {"order_question", "call_request"}
         THEN AgentResult(
                change_state([ctx EXCEPT !.subject = category], "MANAGER_CALLED"),
                FALSE, "", 1, 0, "silent_escalation")
         ELSE Escalate(ctx, category,
                       is_working_hours_and_managers_available(
                           category, o.hour, o.online, o.queryFails))
    ELSE AfterRunner(RunTools([ctx |-> ctx, notifies |-> 0, sends |-> 0], o.script), o)

\* str.strip().lower() in ["/start"]
IsStartCommand(text) == Lower(Strip(text)) \in {<<"/start">>}

\* run_unified_agent, lines 590-610: the second classification; cl is its
\* outcome, c1 the session with the user message stored
AfterClassify(c1, user_message, cl, o) ==
    IF cl.raised
    THEN AgentResult(c1, TRUE, None, 0, 0, "classify_raised")
    ELSE IF cl.value = "office_plant" /\ o.quantity <= 1
    THEN GateAndAgent(c1, user_message, "none", o)
    ELSE IF cl.value = "pot_request"
    THEN AgentResult(add_message(c1, "assistant", "pot_link"),
                     FALSE, "pot_link", 0, 0, "pot_request")
    ELSE GateAndAgent(c1, user_message, cl.value, o)

\* run_unified_agent, lines 581-590: the MANAGER_CALLED rule, on the session
\* with the user message stored; cl is what the classification of line 590
\* gives when the rule lets the turn go on
AfterAddMessage(c1, user_message, cl, o) ==
    IF c1.state = "MANAGER_CALLED" /\ ~IsStartCommand(user_message)
    THEN AgentResult(c1, FALSE, "", 0, 0, "manager_called")
    ELSE AfterClassify(c1, user_message, cl, o)

\* run_unified_agent after its first statement (lines 573-579)
AfterIntent(ctx, user_message, intent, o) ==
    IF intent.raised
    THEN AgentResult(ctx, TRUE, None, 0, 0, "classify_raised")
    ELSE IF intent.value = "review_ignore"
    THEN AgentResult(ctx, FALSE, "", 0, 0, "review_ignore")
    ELSE AfterAddMessage(add_message(ctx, "user", user_message), user_message,
                         classify_intent(user_message, o.category, o.classifyFails),
                         o)

\* run_unified_agent.  Its first statement,
\*     intent = await classify_intent(text=text, context=context)
\* evaluates the name text, which the function never binds.
run_unified_agent(ctx, user_message, o) ==
    IF NameError("text", RunUnifiedAgentLocals)
    THEN AgentResult(ctx, TRUE, None, 0, 0, "NameError_text")
    ELSE IF TypeError({"text", "context"}, ClassifyIntentParams)
    THEN AgentResult(ctx, TRUE, None, 0, 0, "TypeError_context")
    ELSE AfterIntent(ctx, user_message, classify_intent(user_message, o.category, o.classifyFails), o)

(***************************************************************************)
(* main.py : the session map, send_message, the two turn handlers.         *)
(***************************************************************************)
\* a text that is None (both None and "" are falsy in the handlers)
NoText == <<"<None>">>
Truthy(text) == text # NoText /\ text # <<>>

\* dict helpers
DictSet(d, k, v) == [x \in (DOMAIN d) \cup {k} |-> IF x = k THEN v ELSE d[x]]
DictDel(d, ks) == [x \in (DOMAIN d) \ ks |-> d[x]]

\* send_message: messages posted by one call (None is replaced by a fixed
\* text, an empty or blank message is skipped)
Posted(message) ==
    IF message = None THEN 1
    ELSE IF message = "" \/ message = " " THEN 0
    ELSE 1

\* mutant of the reset test: the command is compared without lower()
IsResetText_NoLower(message_text) ==
    Truthy(message_text) /\ Strip(message_text) \in {<<"/start">>}

\* handle_client_message, line 130: message_text and strip().lower() in ["/start"]
IsResetText(message_text) ==
    Truthy(message_text) /\ IsStartCommand(message_text)

\* get-or-create with the expiry check (handle_client_message 137-144,
\* handle_client_image 175-182)
GetOrCreate(ctxs, chat_id, t) ==
    IF chat_id \notin DOMAIN ctxs
    THEN DictSet(ctxs, chat_id, NewChatContext(t))
    ELSE IF is_expired(ctxs[chat_id], t)
         THEN DictSet(ctxs, chat_id, NewChatContext(t))
         ELSE ctxs

\* handle_client_message, lines 129-146: the session map after the fetch
SessionForMessage(ctxs, chat_id, message_text, t) ==
    GetOrCreate(IF IsResetText(message_text)
                THEN DictSet(ctxs, chat_id, NewChatContext(t))
                ELSE ctxs,
                chat_id, t)

TurnResult(ctx, sent, notifies, exit) ==
    [ctx |-> ctx, sent |-> sent, notifies |-> notifies, exit |-> exit]

\* handle_client_message, lines 157-166: what is posted once
\* run_unified_agent has returned or raised
MessageReply(r) ==
    IF r.raised
    THEN TurnResult(r.ctx, r.sent + 1, r.notifies, r.exit)
    ELSE TurnResult(r.ctx,
                    r.sent + (IF r.ret # None /\ r.ret # "" THEN Posted(r.ret) ELSE 0),
                    r.notifies, r.exit)

\* handle_client_message, lines 148-166
MessageTurn(ctx, message_text, o) ==
    IF ~Truthy(message_text)
    THEN TurnResult(ctx, 1, 0, "empty_message")
    ELSE MessageReply(run_unified_agent(ctx, message_text, o))

\* outcomes of the download and of analyze_image in handle_client_image
ImageOutcomes ==
    {"no_response", "bad_status", "empty_content", "no_analysis",
     "download_raises", "plant", "not_plant"}

\* internal_message built from the analysis
InternalMessage(outcome) ==
    IF outcome = "plant" THEN <<"photo_plant">> ELSE <<"photo_other">>

\* handle_client_image, lines 236-247: what is posted once run_unified_agent
\* has returned or raised
ImageReply(r) ==
    IF r.raised
    THEN TurnResult(r.ctx, r.sent + 1, r.notifies, r.exit)
    ELSE TurnResult(r.ctx, r.sent + Posted(r.ret), r.notifies, r.exit)

\* handle_client_image, lines 186-252
ImageTurn(ctx, image_url, outcome, o) ==
    IF image_url = None \/ image_url = ""
    THEN TurnResult(ctx, 1, 0, "no_url")
    ELSE IF outcome \in {"no_response", "bad_status", "empty_content"}
    THEN TurnResult(ctx, 1, 0, "download_failed")
    ELSE IF outcome \notin {"plant", "not_plant"}
    THEN TurnResult(ctx, 1, 0, outcome)
    ELSE ImageReply(run_unified_agent(ctx, InternalMessage(outcome), o))

(***************************************************************************)
(* What the external collaborators answer during one turn.  A collaborator *)
(* that the category does not lead to is given one fixed answer.           *)
(***************************************************************************)
ToolCall(tool, plant, quantity, type, ok) ==
    [tool |-> tool, plant |-> plant, quantity |-> quantity, type |-> type, ok |-> ok]

\* tool calls of one Runner.run; quantity is the int the model fills in,
\* which the tool takes as it comes
ToolScripts ==
    { <<>>,
      <<ToolCall("add_to_cart", <<"f", "x">>, 0, "order", TRUE)>>,
      <<ToolCall("add_to_cart", <<"f", "x">>, 1, "order", TRUE),
        ToolCall("checkout_cart", <<>>, 0, "order", TRUE)>>,
      <<ToolCall("add_to_cart", <<"f", "x">>, 1, "order", TRUE),
        ToolCall("order", NameFx, 1, "order", TRUE)>> }

Oracle(category, quantity, hour, online, queryFails, script, runnerFails, final_output) ==
    [category |-> category, quantity |-> quantity, hour |-> hour,
     online |-> online, queryFails |-> queryFails, script |-> script,
     runnerFails |-> runnerFails, final_output |-> final_output,
     classifyFails |-> FALSE]

\* the answers of a turn that asks nobody
NoOracle == Oracle("none", 1, 18, 0, FALSE, <<>>, FALSE, None)

\* answers that matter when the reply is generated: the tool calls, whether
\* Runner.run raises, its final_output
GenerationOracles(category, quantity) ==
    { Oracle(category, quantity, 18, 0, FALSE, s, g[1], g[2]) :
        s \in ToolScripts,
        g \in {<<FALSE, "generated">>, <<FALSE, None>>, <<TRUE, None>>} }

\* answers that matter at the escalation gate: the hour, the managers
\* online, whether asking for them fails
AvailabilityOracles(category, quantity) ==
    { Oracle(category, quantity, a[1], a[2], a[3], <<>>, FALSE, None) :
        a \in {<<18, 1, FALSE>>, <<18, 0, FALSE>>, <<19, 1, FALSE>>,
               <<19, 0, FALSE>>, <<18, 1, TRUE>>} }

\* one category of each kind the agent tells apart
OracleCategories ==
    {"order_question", "call_request", "reclamation", "office_plant",
     "pot_request", "none"}

Oracles ==
    UNION { IF cat = "office_plant"
            THEN GenerationOracles(cat, 1) \cup AvailabilityOracles(cat, 2)
            ELSE IF cat \in {"order_question", "call_request"}
            THEN {Oracle(cat, 1, 18, 0, FALSE, <<>>, FALSE, None)}
            ELSE IF cat \in CATEGORY_REPLIES
            THEN AvailabilityOracles(cat, 1)
            ELSE GenerationOracles(cat, 1) : cat \in OracleCategories }
    \cup { [Oracle(cat, 1, 18, 1, FALSE, <<>>, FALSE, "generated")
              EXCEPT !.classifyFails = TRUE] : cat \in {"none", "reclamation"} }

\* the answers the pipeline model draws from: no tool call, a generated
\* reply, every category and both sides of the closing hour
PipelineOracles ==
    {o \in Oracles :
        /\ o.script = <<>> /\ o.final_output # None /\ o.online = 0
        /\ ~o.runnerFails /\ ~o.classifyFails /\ ~o.queryFails}
     \cup {o \in Oracles : o.category = "reclamation" /\ o.online = 0}

\* what one handle_client_image call meets: a failed download or analysis,
\* or an analysed photo and the agent's collaborators
ImageRuns ==
    { <<outcome, NoOracle>> : outcome \in ImageOutcomes \ {"plant", "not_plant"} }
    \cup { <<outcome, o>> : outcome \in {"plant", "not_plant"}, o \in Oracles }

(***************************************************************************)
(* main.py : on_message (websocket thread), the debounce queue and the     *)
(* per-chat task process_user_messages.                                    *)
(***************************************************************************)
Chats == {1}
DialogOf(chat_id) == 10 + chat_id
MESSAGE_DELAY == 1
\* one advance of the clock outlasts a session
TickDays == ExpiryDays + 1

\* texts a customer sends: plain, the reset command with a blank and in
\* upper case, the review-request template, a blank message
TextInputs == {<<"hi">>, <<" ", "/START">>, <<"REVIEW">>, <<" ">>}
ImageInputs == {"img", "img2"}

Event(target, sender, assigned, type, text, image) ==
    [target |-> target, sender |-> sender, assigned |-> assigned,
     type |-> type, text |-> text, image |-> image]

\* websocket events: another channel, a customer of an assigned dialog, a
\* customer text, a customer image, a manager, an unknown sender
InboundEvents ==
    {Event(FALSE, "customer", FALSE, "text", <<"hi">>, None)}
    \cup {Event(TRUE, "customer", TRUE, "text", <<"hi">>, None)}
    \cup {Event(TRUE, "customer", FALSE, "text", t, None) : t \in TextInputs}
    \cup {Event(TRUE, "customer", FALSE, "image", NoText, u) : u \in ImageInputs}
    \cup {Event(TRUE, "manager", FALSE, "text", <<"hi">>, None)}
    \cup {Event(TRUE, "bot", FALSE, "text", <<"hi">>, None)}

\* on_message, lines 516-530 and 565-573: the session is created when the
\* chat has none (no expiry check), then written in place
Touch(ctxs, chat_id, t) ==
    IF chat_id \notin DOMAIN ctxs
    THEN DictSet(ctxs, chat_id, NewChatContext(t)) ELSE ctxs

\* on_message: the session map after the event
OnMessageContexts(ctxs, chat_id, ev, t) ==
    LET d == Touch(ctxs, chat_id, t)
        withDialog == [d[chat_id] EXCEPT !.dialog_id = DialogOf(chat_id)]
    IN  IF ~ev.target THEN ctxs
        ELSE IF ev.sender = "customer"
        THEN IF ev.assigned
             THEN DictSet(d, chat_id, change_state(withDialog, "MANAGER_CALLED"))
             ELSE DictSet(d, chat_id, withDialog)
        ELSE IF ev.sender \in {"manager", "user"}
        THEN DictSet(d, chat_id, change_state(withDialog, "MANAGER_CALLED"))
        ELSE ctxs

\* on_message: the items it puts on message_queue
OnMessageItems(chat_id, ev) ==
    IF ev.target /\ ev.sender = "customer" /\ ~ev.assigned
    THEN IF ev.type = "text"
         THEN IF Truthy(ev.text) /\ Strip(ev.text) # <<>>
              THEN << <<chat_id, ev.text>> >> ELSE <<>>
         ELSE IF ev.type = "image"
         THEN IF ev.image # None /\ ev.image # ""
              THEN << <<chat_id, NoText, ev.image>> >> ELSE <<>>
         ELSE <<>>
    ELSE <<>>

\* "\n".join(text_messages)
RECURSIVE JoinNewline(_)
JoinNewline(texts) ==
    IF texts = <<>> THEN <<>>
    ELSE IF Len(texts) = 1 THEN texts[1]
    ELSE texts[1] \o <<"\n">> \o JoinNewline(Tail(texts))

\* mutant of the split: a text that follows an image in the list is skipped
RECURSIVE TextMessages_SkipAfterImage(_)
TextMessages_SkipAfterImage(messages) ==
    IF messages = <<>> THEN <<>>
    ELSE LET m == Head(messages)
         IN  IF m[2] # None /\ m[2] # ""
             THEN IF Len(messages) >= 2
                  THEN TextMessages_SkipAfterImage(Tail(Tail(messages)))
                  ELSE <<>>
             ELSE (IF Truthy(m[1]) THEN <<m[1]>> ELSE <<>>)
                  \o TextMessages_SkipAfterImage(Tail(messages))

\* process_user_messages, lines 696-703: the texts of the list, in order
RECURSIVE TextMessages(_)
TextMessages(messages) ==
    IF messages = <<>> THEN <<>>
    ELSE LET m == Head(messages)
         IN  (IF m[2] # None /\ m[2] # "" THEN <<>>
              ELSE IF Truthy(m[1]) THEN <<m[1]>> ELSE <<>>)
             \o TextMessages(Tail(messages))

\* mutant of the split: the image urls come out last first
RECURSIVE ImageMessages_Reversed(_)
ImageMessages_Reversed(messages) ==
    IF messages = <<>> THEN <<>>
    ELSE LET m == Head(messages)
         IN  ImageMessages_Reversed(Tail(messages))
             \o (IF m[2] # None /\ m[2] # "" THEN <<m[2]>> ELSE <<>>)

\* process_user_messages, lines 696-703: the image urls of the list, in order
RECURSIVE ImageMessages(_)
ImageMessages(messages) ==
    IF messages = <<>> THEN <<>>
    ELSE LET m == Head(messages)
         IN  (IF m[2] # None /\ m[2] # "" THEN <<m[2]>> ELSE <<>>)
             \o ImageMessages(Tail(messages))

\* the frame of one process_user_messages task; batch, dispatched and calls
\* record the list it read, the urls it handed to handle_client_image and
\* the texts it handed to handle_client_message
NewTask ==
    [pc |-> "sleep", image_messages |-> <<>>, text_messages |-> <<>>,
     combined_text |-> NoText, pre |-> "absent", batch |-> <<>>, calls |-> <<>>,
     dispatched |-> <<>>]

\* a thread that is not inside on_message, handle_client_message or the
\* sweep; ev is the event, the text or the list of expired chats it works on
IdleFrame(ev) == [pc |-> "idle", ev |-> ev, held |-> "none"]

\* the websocket thread, the handler and the sweep, all idle
IdleFrames ==
    [ws |-> IdleFrame([target |-> FALSE, sender |-> "none", assigned |-> FALSE,
                       type |-> "none", text |-> NoText, image |-> None]),
     handler |-> IdleFrame(NoText),
     sweep |-> IdleFrame({})]

\* the event loop with no turn under way: the thread is free, no call is
\* outstanding, no timer of another chat is due
NoLoop ==
    [thread |-> "free", calls |-> <<>>, phase |-> "none", due |-> 0,
     ran |-> 0, turns |-> 0]

\* no escalation-gate call made yet
NoGate ==
    [calls |-> 0, notifies |-> 0, exit |-> "none", same |-> TRUE,
     failed |-> FALSE, pre |-> "START", word |-> "none", sent |-> 0,
     notifyOk |-> TRUE]

StateOf(ctxs, chat_id) ==
    IF chat_id \in DOMAIN ctxs THEN ctxs[chat_id].state ELSE "absent"

NoTurn ==
    [kind |-> "none", reset |-> FALSE, review |-> FALSE, pre |-> "absent",
     post |-> "absent", same |-> TRUE, cart |-> 0, sent |-> 0, notifies |-> 0,
     exit |-> "none", rating |-> FALSE]


\* what a finished turn did: the dialog state before the session was fetched
\* and after the turn, whether the fetched session was left as it was, the
\* entries of its cart, the messages posted to the user and the
\* notify_seller calls
Turn(kind, text, pre, fetched, r) ==
    [kind |-> kind,
     reset |-> kind = "text" /\ Lower(Strip(text)) = <<"/start">>,
     review |-> kind = "text" /\ Strip(text) = <<"REVIEW">>,
     rating |-> kind = "text" /\ Strip(text) = <<"5">>,
     pre |-> pre,
     post |-> r.ctx.state,
     same |-> r.ctx = fetched,
     cart |-> Len(r.ctx.cart),
     sent |-> r.sent,
     notifies |-> r.notifies,
     exit |-> r.exit]

(***************************************************************************)
(* SpecCart: one session, driven by the operations a generation turn can   *)
(* request (the tool actions, in any order) and by the ChatContext calls   *)
(* they are built from.                                                    *)
(***************************************************************************)
QtyIn == 1..2
OrderTypes == {"order", "preorder"}
\* names the collaborator may ask to remove: exact, other case, part, absent
RemoveInputs == {NameFx, <<"f", "x">>, <<"x">>, <<"z">>}
\* names it may ask to add or order: other case with blanks, part, the
\* fallback name of a nameless record, absent, blank
SearchInputs == {<<" ", "f", "x">>, <<"x">>, UnknownName, <<"z">>, <<" ">>}
OrderInputs == {NameFx, <<"z">>}

\* sum of the quantities of the entries with the given name
RECURSIVE QtyOfName(_, _)
QtyOfName(cart, name) ==
    IF cart = <<>> THEN 0
    ELSE (IF PlantName(Head(cart).plant) = name THEN Head(cart).quantity ELSE 0)
         + QtyOfName(Tail(cart), name)

QtyWithin(ctx) ==
    /\ Len(ctx.cart) <= Len(plants_data) + 1
    /\ \A i \in DOMAIN ctx.cart : ctx.cart[i].quantity <= MaxQty

NoOp == [op |-> "none", name |-> <<>>, q |-> 0, preQty |-> 0]

\* what the latest operation was, and what it was applied to
Record(ctx2, op, name, q, ret) ==
    [op |-> op, name |-> name, q |-> q, ret |-> ret,
     preQty |-> QtyOfName(context.cart, name),
     preLen |-> Len(context.cart),
     cartSame |-> ctx2.cart = context.cart,
     stateSame |-> ctx2.state = context.state,
     fromSearch |-> \/ op # "change_state"
                    \/ context.state \in {"START", "PLANT_SEARCH",
                                          "CART_MANAGEMENT"},
     fromOutOfStock |-> op = "change_state" /\ context.state = "OUT_OF_STOCK"]

\* the operation before the latest one, kept when it was an add_to_cart
Shift ==
    IF last.op = "add"
    THEN [op |-> "add", name |-> last.name, q |-> last.q, preQty |-> last.preQty]
    ELSE NoOp

InitCart ==
    /\ context = NewChatContext(0)
    /\ last = [op |-> "none", name |-> <<>>, q |-> 0, ret |-> "none",
               preQty |-> 0, preLen |-> 0, cartSame |-> TRUE, stateSame |-> TRUE,
               fromSearch |-> TRUE, fromOutOfStock |-> FALSE]
    /\ prev = NoOp
    /\ now = 0
    /\ chat_contexts = <<>>
    /\ message_queue = <<>>
    /\ user_messages = <<>>
    /\ user_timers = <<>>
    /\ live = [chat_id \in Chats |-> 0]
    /\ events = 0
    /\ lastTurn = NoTurn
    /\ lastOracle = NoOracle
    /\ frames = IdleFrames
    /\ gate = NoGate
    /\ loop = NoLoop

CtxAddToCart ==
    \E p \in Catalog, q \in QtyIn, t \in OrderTypes :
        LET c == ChatContext_add_to_cart(context, p, q, t)
        IN  /\ QtyWithin(c)
            /\ context' = c
            /\ last' = Record(c, "add", PlantName(p), q, "none")
            /\ prev' = Shift
            /\ UNCHANGED progVars

CtxRemoveFromCart ==
    \E name \in RemoveInputs :
        LET c == ChatContext_remove_from_cart(context, name)
        IN  /\ context' = c
            /\ last' = Record(c, "remove", <<>>, 0, "none")
            /\ prev' = Shift
            /\ UNCHANGED progVars

CtxChangeState ==
    \E s \in DialogState :
        LET c == change_state(context, s)
        IN  /\ context' = c
            /\ last' = Record(c, "change_state", <<>>, 0, s)
            /\ prev' = Shift
            /\ UNCHANGED progVars

CtxClearCart ==
    /\ context' = clear_cart(context)
    /\ last' = Record(clear_cart(context), "clear_cart", <<>>, 0, "none")
    /\ prev' = Shift
    /\ UNCHANGED progVars

ToolAddToCart ==
    \E plant \in SearchInputs, q \in QtyIn, t \in OrderTypes :
        LET r == add_to_cart(context, plant, q, t)
        IN  /\ QtyWithin(r.ctx)
            /\ context' = r.ctx
            /\ last' = Record(r.ctx, "tool_add", <<>>, 0, r.ret)
            /\ prev' = Shift
            /\ UNCHANGED progVars

ToolRemoveFromCart ==
    \E name \in RemoveInputs :
        LET r == remove_from_cart(context, name)
        IN  /\ context' = r.ctx
            /\ last' = Record(r.ctx, "tool_remove", name, 0, r.ret)
            /\ prev' = Shift
            /\ UNCHANGED progVars

ToolShowCart ==
    LET r == show_cart(context)
    IN  /\ context' = r.ctx
        /\ last' = Record(r.ctx, "tool_show", <<>>, 0, r.ret)
        /\ prev' = Shift
        /\ UNCHANGED progVars

ToolCheckoutCart ==
    LET r == checkout_cart(context)
    IN  /\ context' = r.ctx
        /\ last' = Record(r.ctx, "tool_checkout", <<>>, 0, r.ret)
        /\ prev' = Shift
        /\ UNCHANGED progVars

\* order and preorder
ToolOrder ==
    \E plant \in OrderInputs, q \in QtyIn, ok \in BOOLEAN :
        LET r == order(context, plant, q, ok)
        IN  /\ context' = r.ctx
            /\ last' = Record(r.ctx, "tool_order", <<>>, 0, r.ret)
            /\ prev' = Shift
            /\ UNCHANGED progVars

ToolSuggestAccessories ==
    LET r == suggest_accessories(context)
    IN  /\ context' = r.ctx
        /\ last' = Record(r.ctx, "tool_suggest", <<>>, 0, r.ret)
        /\ prev' = Shift
        /\ UNCHANGED progVars

NextCart ==
    \/ CtxAddToCart
    \/ CtxRemoveFromCart
    \/ CtxChangeState
    \/ CtxClearCart
    \/ ToolAddToCart
    \/ ToolRemoveFromCart
    \/ ToolShowCart
    \/ ToolCheckoutCart
    \/ ToolOrder
    \/ ToolSuggestAccessories

SpecCart == InitCart /\ [][NextCart]_vars

(***************************************************************************)
(* Properties of the cart and of change_state, checked under SpecCart.     *)
(***************************************************************************)
RowsOfName(cart, name) == {i \in DOMAIN cart : PlantName(cart[i].plant) = name}

\* C4: after ChatContext.add_to_cart(item, q1) followed directly by
\* add_to_cart(item, q2) the cart holds exactly one entry with the item's
\* name, and its quantity is q1 + q2 on top of what the cart held for that
\* name before the first call (nothing, for an item that was not in the cart).
C4_AddTwiceMerges ==
    (last.op = "add" /\ prev.op = "add" /\ prev.name = last.name) =>
        /\ Cardinality(RowsOfName(context.cart, last.name)) = 1
        /\ \A i \in RowsOfName(context.cart, last.name) :
              context.cart[i].quantity = prev.preQty + prev.q + last.q

C4_Witness ==
    /\ last.op = "add" /\ prev.op = "add" /\ prev.name = last.name
    /\ prev.preQty = 0 /\ prev.q = 1 /\ last.q = 2
    /\ QtyOfName(context.cart, last.name) = 3

\* C5: no two entries of the cart carry the same plant name.
C5_CartNamesUnique ==
    \A i, j \in DOMAIN context.cart :
        i # j => PlantName(context.cart[i].plant) # PlantName(context.cart[j].plant)

\* a tool add_to_cart that changed the cart without adding a row
C5_Witness ==
    /\ last.op = "tool_add" /\ last.ret = "added"
    /\ ~last.cartSame
    /\ last.preLen = Len(context.cart)
    /\ Len(context.cart) = 2

\* C6: the remove-from-cart tool action, given a name that no cart entry
\* carries (the cart may be empty), leaves cart and dialog state as they were
\* and reports "not found".
C6_RemoveAbsentIsNoOp ==
    (last.op = "tool_remove" /\ last.preQty = 0) =>
        /\ last.cartSame
        /\ last.stateSame
        /\ last.ret = "not_found"

\* C7: change_state(COMPLETED) leaves the cart empty and the state COMPLETED.
C7_CompletedClearsCart ==
    (last.op = "change_state" /\ last.ret = "COMPLETED") =>
        /\ context.cart = <<>>
        /\ context.state = "COMPLETED"

C7_Witness ==
    /\ last.op = "change_state" /\ last.ret = "COMPLETED"
    /\ last.preLen = 2
    /\ ~last.stateSame

(***************************************************************************)
(* Spec: the program.  Time advances in steps of TickDays days and never   *)
(* while a turn has fetched its session and not yet finished.              *)
(***************************************************************************)
Init ==
    /\ now = 0
    /\ chat_contexts = <<>>
    /\ message_queue = <<>>
    /\ user_messages = <<>>
    /\ user_timers = <<>>
    /\ live = [chat_id \in Chats |-> 0]
    /\ events = 0
    /\ lastTurn = NoTurn
    /\ lastOracle = NoOracle
    /\ frames = IdleFrames
    /\ gate = NoGate
    /\ loop = NoLoop
    /\ context = NewChatContext(0)
    /\ last = [op |-> "none", name |-> <<>>, q |-> 0, ret |-> "none",
               preQty |-> 0, preLen |-> 0, cartSame |-> TRUE, stateSame |-> TRUE,
               fromSearch |-> TRUE, fromOutOfStock |-> FALSE]
    /\ prev = NoOp

\* the websocket thread receives one event
OnMessage ==
    \E chat_id \in Chats, ev \in InboundEvents :
        /\ events < MaxEvents
        /\ events' = events + 1
        /\ chat_contexts' = OnMessageContexts(chat_contexts, chat_id, ev, now)
        /\ message_queue' = message_queue \o OnMessageItems(chat_id, ev)
        /\ UNCHANGED <<now, user_messages, user_timers, live, lastTurn,
                       lastOracle, frames, gate, loop, cartVars>>

\* mutant of the timer test: a task is created for every item
NeedsTimer_Always(timers, chat_id) == TRUE

\* process_messages, line 749: chat_id not in user_timers
NeedsTimer(timers, chat_id) == chat_id \notin DOMAIN timers

\* process_messages: one iteration of its loop
ProcessMessages ==
    /\ message_queue # <<>>
    /\ LET item == Head(message_queue)
           chat_id == item[1]
           pending == IF chat_id \in DOMAIN user_messages
                      THEN user_messages[chat_id] ELSE <<>>
           entry == IF Len(item) = 2 THEN <<item[2], None>> ELSE <<NoText, item[3]>>
       IN  /\ message_queue' = Tail(message_queue)
           /\ user_messages' = DictSet(user_messages, chat_id, Append(pending, entry))
           /\ user_timers' = IF NeedsTimer(user_timers, chat_id)
                             THEN DictSet(user_timers, chat_id, NewTask)
                             ELSE user_timers
           /\ live' = IF NeedsTimer(user_timers, chat_id)
                      THEN [live EXCEPT ![chat_id] = @ + 1]
                      ELSE live
    /\ UNCHANGED <<now, chat_contexts, events, lastTurn, lastOracle,
                   frames, gate, loop, cartVars>>

\* where a task goes on after the step it just finished
NextPc(images, texts) ==
    IF images # <<>> THEN "image_begin"
    ELSE IF texts # <<>> THEN "text_begin"
    ELSE "finally"

\* process_user_messages, lines 682-703: the sleep is over
TimerFire(chat_id) ==
    /\ chat_id \in DOMAIN user_timers
    /\ user_timers[chat_id].pc = "sleep"
    /\ LET messages == IF chat_id \in DOMAIN user_messages
                       THEN user_messages[chat_id] ELSE <<>>
           images == ImageMessages(messages)
           texts == TextMessages(messages)
       IN  /\ user_messages' = IF messages = <<>> THEN user_messages
                               ELSE DictSet(user_messages, chat_id, <<>>)
           /\ user_timers' =
                DictSet(user_timers, chat_id,
                        [user_timers[chat_id] EXCEPT
                            !.pc = IF messages = <<>> THEN "finally"
                                   ELSE NextPc(images, texts),
                            !.image_messages = images,
                            !.text_messages = texts,
                            !.batch = messages])
    /\ UNCHANGED <<live, now, chat_contexts, message_queue, events, lastTurn,
                   lastOracle, frames, gate, loop, cartVars>>

\* handle_client_image, lines 174-184: the session is fetched
ImageBegin(chat_id) ==
    /\ chat_id \in DOMAIN user_timers
    /\ user_timers[chat_id].pc = "image_begin"
    /\ chat_contexts' = GetOrCreate(chat_contexts, chat_id, now)
    /\ user_timers' =
         DictSet(user_timers, chat_id,
                 [user_timers[chat_id] EXCEPT
                     !.pc = "image_run",
                     !.pre = StateOf(chat_contexts, chat_id),
                     !.dispatched = Append(@, Head(user_timers[chat_id].image_messages))])
    /\ UNCHANGED <<live, now, message_queue, user_messages, events, lastTurn,
                   lastOracle, frames, gate, loop, cartVars>>

\* handle_client_image, lines 186-252: download, analysis, agent, reply
ImageRun(chat_id) ==
    /\ chat_id \in DOMAIN user_timers
    /\ user_timers[chat_id].pc = "image_run"
    /\ chat_id \in DOMAIN chat_contexts
    /\ \E run \in {x \in ImageRuns : x[2] \in PipelineOracles \cup {NoOracle}} :
        LET task == user_timers[chat_id]
            fetched == chat_contexts[chat_id]
            r == ImageTurn(fetched, Head(task.image_messages), run[1], run[2])
        IN  /\ chat_contexts' = DictSet(chat_contexts, chat_id, r.ctx)
            /\ lastTurn' = Turn("image", NoText, task.pre, fetched, r)
            /\ user_timers' =
                 DictSet(user_timers, chat_id,
                         [task EXCEPT
                             !.pc = NextPc(Tail(task.image_messages), task.text_messages),
                             !.image_messages = Tail(@)])
    /\ UNCHANGED <<live, now, message_queue, user_messages, events,
                   lastOracle, frames, gate, loop, cartVars>>

\* process_user_messages 711-714 and handle_client_message 129-146: the
\* texts are joined and the session is reset or fetched
TextBegin(chat_id) ==
    /\ chat_id \in DOMAIN user_timers
    /\ user_timers[chat_id].pc = "text_begin"
    /\ LET task == user_timers[chat_id]
           combined_text == JoinNewline(task.text_messages)
       IN  /\ chat_contexts' =
                SessionForMessage(chat_contexts, chat_id, combined_text, now)
           /\ user_timers' =
                DictSet(user_timers, chat_id,
                        [task EXCEPT
                            !.pc = "text_run",
                            !.combined_text = combined_text,
                            !.pre = StateOf(chat_contexts, chat_id),
                            !.calls = Append(@, combined_text)])
    /\ UNCHANGED <<live, now, message_queue, user_messages, events, lastTurn,
                   lastOracle, frames, gate, loop, cartVars>>

\* handle_client_message, lines 148-166: the agent and the reply
TextRun(chat_id) ==
    /\ chat_id \in DOMAIN user_timers
    /\ user_timers[chat_id].pc = "text_run"
    /\ chat_id \in DOMAIN chat_contexts
    /\ \E o \in PipelineOracles :
        LET task == user_timers[chat_id]
            fetched == chat_contexts[chat_id]
            r == MessageTurn(fetched, task.combined_text, o)
        IN  /\ chat_contexts' = DictSet(chat_contexts, chat_id, r.ctx)
            /\ lastTurn' = Turn("text", task.combined_text, task.pre, fetched, r)
            /\ user_timers' =
                 DictSet(user_timers, chat_id, [task EXCEPT !.pc = "finally"])
    /\ UNCHANGED <<live, now, message_queue, user_messages, events,
                   lastOracle, frames, gate, loop, cartVars>>

\* process_user_messages, lines 718-722: the timer entry is removed; the
\* record of the task's latest turn goes with it
Finally(chat_id) ==
    /\ chat_id \in DOMAIN user_timers
    /\ user_timers[chat_id].pc = "finally"
    /\ user_timers' = DictDel(user_timers, {chat_id})
    /\ live' = [live EXCEPT ![chat_id] = @ - 1]
    /\ lastTurn' = NoTurn
    /\ UNCHANGED <<now, chat_contexts, message_queue, user_messages, events,
                   lastOracle, frames, gate, loop, cartVars>>

InTurn ==
    \E chat_id \in DOMAIN user_timers :
        user_timers[chat_id].pc \in {"image_run", "text_run"}

\* TickDays days pass
Tick ==
    /\ now + TickDays <= MaxTicks * TickDays
    /\ ~InTurn
    /\ frames = IdleFrames
    /\ now' = now + TickDays
    /\ UNCHANGED <<chat_contexts, message_queue, user_messages, user_timers,
                   live,
                   events, lastTurn, lastOracle, frames, gate, loop, cartVars>>

\* cleanup_expired_contexts (periodic_cleanup)
CleanupExpiredContexts ==
    /\ chat_contexts' =
         DictDel(chat_contexts,
                 {chat_id \in DOMAIN chat_contexts :
                     is_expired(chat_contexts[chat_id], now)})
    /\ UNCHANGED <<now, message_queue, user_messages, user_timers, live, events,
                   lastTurn, lastOracle, frames, gate, loop, cartVars>>

Next ==
    \/ OnMessage
    \/ ProcessMessages
    \/ \E chat_id \in Chats : TimerFire(chat_id)
    \/ \E chat_id \in Chats : ImageBegin(chat_id)
    \/ \E chat_id \in Chats : ImageRun(chat_id)
    \/ \E chat_id \in Chats : TextBegin(chat_id)
    \/ \E chat_id \in Chats : TextRun(chat_id)
    \/ \E chat_id \in Chats : Finally(chat_id)
    \/ Tick
    \/ CleanupExpiredContexts

Spec == Init /\ [][Next]_vars

\* the event loop keeps running what is runnable: the `while True` loop of
\* process_messages and every created process_user_messages task.  Inbound
\* events, the clock and the sweep are left without fairness.
SpecLive ==
    /\ Spec
    /\ WF_vars(ProcessMessages)
    /\ \A chat_id \in Chats :
          /\ WF_vars(TimerFire(chat_id))
          /\ WF_vars(ImageBegin(chat_id))
          /\ WF_vars(ImageRun(chat_id))
          /\ WF_vars(TextBegin(chat_id))
          /\ WF_vars(TextRun(chat_id))
          /\ WF_vars(Finally(chat_id))

(***************************************************************************)
(* SpecTurn: one chat, whole turns.  Each handler call runs from the fetch *)
(* of the session to its last statement in one step, and the answers of    *)
(* its collaborators are kept in lastOracle.                                *)
(***************************************************************************)
TurnChat == CHOOSE chat_id \in Chats : TRUE

\* texts handed to handle_client_message, a joined pair among them
TurnTexts ==
    TextInputs \cup {<<"hi", "\n", "hi">>, <<"REVIEW", "\n">>, <<"5">>}

\* handle_client_message, whole
HandleClientMessage ==
    \E message_text \in TurnTexts, o \in Oracles :
        LET ctxs == SessionForMessage(chat_contexts, TurnChat, message_text, now)
            fetched == ctxs[TurnChat]
            r == MessageTurn(fetched, message_text, o)
        IN  /\ chat_contexts' = DictSet(ctxs, TurnChat, r.ctx)
            /\ lastTurn' = Turn("text", message_text,
                                StateOf(chat_contexts, TurnChat), fetched, r)
            /\ lastOracle' = o
            /\ UNCHANGED <<now, message_queue, user_messages, user_timers,
                           live, events,
                           frames, gate, loop, cartVars>>

\* handle_client_image, whole
HandleClientImage ==
    \E image_url \in ImageInputs, run \in ImageRuns :
        LET ctxs == GetOrCreate(chat_contexts, TurnChat, now)
            fetched == ctxs[TurnChat]
            r == ImageTurn(fetched, image_url, run[1], run[2])
        IN  /\ chat_contexts' = DictSet(ctxs, TurnChat, r.ctx)
            /\ lastTurn' = Turn("image", NoText,
                                StateOf(chat_contexts, TurnChat), fetched, r)
            /\ lastOracle' = run[2]
            /\ UNCHANGED <<now, message_queue, user_messages, user_timers,
                           live, events,
                           frames, gate, loop, cartVars>>

\* on_message for an event that queues nothing: a manager writes, or the
\* dialog is found assigned
ManagerTakesOver ==
    \E ev \in {e \in InboundEvents : OnMessageItems(TurnChat, e) = <<>>} :
        /\ chat_contexts' = OnMessageContexts(chat_contexts, TurnChat, ev, now)
        /\ chat_contexts' # chat_contexts
        /\ UNCHANGED <<now, message_queue, user_messages, user_timers, live,
                       events,
                       lastTurn, lastOracle, frames, gate, loop, cartVars>>

NextTurn ==
    \/ HandleClientMessage
    \/ HandleClientImage
    \/ ManagerTakesOver
    \/ Tick
    \/ CleanupExpiredContexts

SpecTurn == Init /\ [][NextTurn]_vars

(***************************************************************************)
(* The session map at statement granularity.  on_message runs on the      *)
(* websocket thread and takes no lock; handle_client_message and the      *)
(* sweep run on the event loop and have no await in the sections below,   *)
(* so they exclude each other but not the websocket thread.               *)
(***************************************************************************)
\* websocket events that write a session: a customer text, a customer of an
\* assigned dialog, a manager
RaceEvents ==
    {ev \in InboundEvents :
        ev.target /\ ev.type = "text" /\ ev.sender \in {"customer", "manager"}}

\* the entry of the chat is replaced or deleted: a reference taken from the
\* map before is now a reference to an object the map no longer holds
Detach(fr) ==
    [fr EXCEPT !.ws.held = IF @ = "map" THEN "detached" ELSE @]

raceRest == <<user_messages, user_timers, live, lastTurn, lastOracle, gate, loop,
              cartVars>>

\* on_message, lines 481-515: the event is parsed and is for this channel
WsBegin ==
    \E ev \in RaceEvents :
        /\ frames.ws.pc = "idle"
        /\ events < MaxEvents
        /\ events' = events + 1
        /\ frames' = [frames EXCEPT !.ws = [pc |-> "check", ev |-> ev,
                                             held |-> "none"]]
        /\ UNCHANGED <<now, chat_contexts, message_queue, raceRest>>

\* on_message, lines 516, 525, 565: if chat_id not in chat_contexts
WsCheck ==
    /\ frames.ws.pc = "check"
    /\ frames' = [frames EXCEPT
                    !.ws.pc = IF TurnChat \notin DOMAIN chat_contexts
                              THEN "insert" ELSE "fetch"]
    /\ UNCHANGED <<now, chat_contexts, message_queue, events, raceRest>>

\* on_message, lines 517, 526, 566: chat_contexts[chat_id] = ChatContext(chat_id)
WsInsert ==
    /\ frames.ws.pc = "insert"
    /\ chat_contexts' = DictSet(chat_contexts, TurnChat, NewChatContext(now))
    /\ frames' = [frames EXCEPT !.ws.pc = "fetch"]
    /\ UNCHANGED <<now, message_queue, events, raceRest>>

\* on_message, lines 519, 528, 568: context = chat_contexts[chat_id]; a
\* KeyError ends the callback in the handler of line 580
WsFetch ==
    /\ frames.ws.pc = "fetch"
    /\ frames' = IF TurnChat \in DOMAIN chat_contexts
                 THEN [frames EXCEPT !.ws.pc = "write", !.ws.held = "map"]
                 ELSE [frames EXCEPT !.ws = IdleFrames.ws]
    /\ UNCHANGED <<now, chat_contexts, message_queue, events, raceRest>>

\* on_message, lines 520-522, 529-560, 569-572: the writes through the
\* reference, then the queue
WsWrite ==
    /\ frames.ws.pc = "write"
    /\ chat_contexts' =
         IF frames.ws.held = "map"
         THEN OnMessageContexts(chat_contexts, TurnChat, frames.ws.ev, now)
         ELSE chat_contexts
    /\ message_queue' = message_queue \o OnMessageItems(TurnChat, frames.ws.ev)
    /\ frames' = [frames EXCEPT !.ws = IdleFrames.ws]
    /\ UNCHANGED <<now, events, raceRest>>

\* process_messages and process_user_messages hand one queued text to
\* handle_client_message
HandlerBegin ==
    /\ frames.handler.pc = "idle"
    /\ frames.sweep.pc = "idle"
    /\ message_queue # <<>>
    /\ message_queue' = Tail(message_queue)
    /\ frames' = [frames EXCEPT
                    !.handler = [pc |-> "reset", ev |-> Head(message_queue)[2],
                                 held |-> "none"]]
    /\ UNCHANGED <<now, chat_contexts, events, raceRest>>

\* handle_client_message, lines 130-133: the reset command replaces the entry
HandlerReset ==
    /\ frames.handler.pc = "reset"
    /\ LET reset == IsResetText(frames.handler.ev)
       IN  /\ chat_contexts' =
                IF reset
                THEN DictSet(chat_contexts, TurnChat, NewChatContext(now))
                ELSE chat_contexts
           /\ frames' = [(IF reset THEN Detach(frames) ELSE frames)
                            EXCEPT !.handler.pc = "check"]
    /\ UNCHANGED <<now, message_queue, events, raceRest>>

\* handle_client_message, line 137: if chat_id not in chat_contexts
HandlerCheck ==
    /\ frames.handler.pc = "check"
    /\ frames' = [frames EXCEPT
                    !.handler.pc = IF TurnChat \notin DOMAIN chat_contexts
                                   THEN "insert" ELSE "expiry"]
    /\ UNCHANGED <<now, chat_contexts, message_queue, events, raceRest>>

\* handle_client_message, line 138
HandlerInsert ==
    /\ frames.handler.pc = "insert"
    /\ chat_contexts' = DictSet(chat_contexts, TurnChat, NewChatContext(now))
    /\ frames' = [Detach(frames) EXCEPT !.handler.pc = "fetch"]
    /\ UNCHANGED <<now, message_queue, events, raceRest>>

\* handle_client_message, lines 141-144: an expired entry is replaced
HandlerExpiry ==
    /\ frames.handler.pc = "expiry"
    /\ TurnChat \in DOMAIN chat_contexts
    /\ LET expired == is_expired(chat_contexts[TurnChat], now)
       IN  /\ chat_contexts' =
                IF expired
                THEN DictSet(chat_contexts, TurnChat, NewChatContext(now))
                ELSE chat_contexts
           /\ frames' = [(IF expired THEN Detach(frames) ELSE frames)
                            EXCEPT !.handler.pc = "fetch"]
    /\ UNCHANGED <<now, message_queue, events, raceRest>>

\* handle_client_message, line 146: context = chat_contexts[chat_id]
HandlerFetch ==
    /\ frames.handler.pc = "fetch"
    /\ frames' = [frames EXCEPT !.handler = IdleFrames.handler]
    /\ UNCHANGED <<now, chat_contexts, message_queue, events, raceRest>>

\* cleanup_expired_contexts, lines 94-97: the expired chats are listed
SweepScan ==
    /\ frames.sweep.pc = "idle"
    /\ frames.handler.pc = "idle"
    /\ frames' = [frames EXCEPT
                    !.sweep = [pc |-> "delete",
                               ev |-> {chat_id \in DOMAIN chat_contexts :
                                          is_expired(chat_contexts[chat_id], now)},
                               held |-> "none"]]
    /\ UNCHANGED <<now, chat_contexts, message_queue, events, raceRest>>

\* cleanup_expired_contexts, lines 99-101: the listed entries are deleted
SweepDelete ==
    /\ frames.sweep.pc = "delete"
    /\ chat_contexts' = DictDel(chat_contexts, frames.sweep.ev)
    /\ frames' = [(IF TurnChat \in frames.sweep.ev THEN Detach(frames) ELSE frames)
                     EXCEPT !.sweep = IdleFrames.sweep]
    /\ UNCHANGED <<now, message_queue, events, raceRest>>

NextRace ==
    \/ WsBegin
    \/ WsCheck
    \/ WsInsert
    \/ WsFetch
    \/ WsWrite
    \/ HandlerBegin
    \/ HandlerReset
    \/ HandlerCheck
    \/ HandlerInsert
    \/ HandlerExpiry
    \/ HandlerFetch
    \/ SweepScan
    \/ SweepDelete
    \/ Tick

SpecRace == Init /\ [][NextRace]_vars

(***************************************************************************)
(* run_unified_agent from the stored user message on (lines 579-667),      *)
(* applied to one session with the classifier's answer given.              *)
(***************************************************************************)
\* notify_seller calls made by the escalation gate itself in a call that
\* ended with result r
GateNotifies(r) ==
    IF r.exit \in {"silent_escalation", "after_hours", "escalation"}
    THEN r.notifies ELSE 0

\* classify_intent, lines 216-230, called at line 590: the completion call
\* raises or answers a word, and a word outside CATEGORY_REPLIES is "none"
Classified(o) ==
    IF o.classifyFails THEN Raised
    ELSE Value(IF o.category \in CATEGORY_REPLIES THEN o.category ELSE "none")

\* one customer message goes through lines 579-667; notifyOk is whether
\* notify_seller answers "success" or "error", an answer lines 617, 633 and
\* 642 do not look at
GateTurn ==
    \E o \in Oracles, notifyOk \in BOOLEAN :
        /\ gate.calls < MaxCalls
        /\ LET r == AfterAddMessage(
                        add_message(context, "user", <<"hi">>), <<"hi">>,
                        Classified(o), o)
           IN  /\ context' = r.ctx
               /\ gate' = [calls |-> gate.calls + 1,
                           notifies |-> gate.notifies + GateNotifies(r),
                           exit |-> r.exit,
                           same |-> r.ctx = context,
                           failed |-> o.classifyFails,
                           pre |-> context.state,
                           word |-> o.category,
                           sent |-> MessageReply(r).sent,
                           notifyOk |-> notifyOk]
        /\ UNCHANGED <<now, chat_contexts, message_queue, user_messages,
                       user_timers, live, events, lastTurn, lastOracle, frames,
                       loop, last, prev>>

\* the session is replaced (handle_client_message, lines 130-144)
GateNewSession ==
    /\ gate.calls > 0
    /\ context' = NewChatContext(0)
    /\ gate' = [NoGate EXCEPT !.calls = gate.calls]
    /\ UNCHANGED <<now, chat_contexts, message_queue, user_messages,
                   user_timers, live, events, lastTurn, lastOracle, frames,
                   loop, last, prev>>

NextGate ==
    \/ GateTurn
    \/ GateNewSession

SpecGate == Init /\ [][NextGate]_vars

(***************************************************************************)
(* The event loop: one turn of run_unified_agent (lines 579-667) with the  *)
(* external calls it makes, next to the debounce timers of other chats.    *)
(* All tasks share one thread; a task gives the thread up only at an await.*)
(***************************************************************************)
\* telegrambot.notify_seller, lines 353-376: handle_manager_assignment when
\* the session has a dialog_id, then the Telegram message
NotifyCalls(ctx) ==
    (IF ctx.dialog_id # NoDialog THEN <<"dialog_assignment">> ELSE <<>>)
        \o <<"seller_notification">>

\* n notify_seller calls in a row
RECURSIVE NotifyTimes(_, _)
NotifyTimes(ctx, n) ==
    IF n = 0 THEN <<>> ELSE NotifyCalls(ctx) \o NotifyTimes(ctx, n - 1)

\* the external calls of one turn, in order, given the way r it went: the
\* classification of line 590, the query of line 623, notify_seller of
\* lines 617, 633 and 642, Runner.run of line 654 and the notify_seller
\* calls of its order tools
ExternalCalls(ctx, r) ==
    CASE r.exit = "manager_called" -> <<>>
      [] r.exit \in {"classify_raised", "pot_request"} -> <<"classification">>
      [] r.exit = "silent_escalation" ->
            <<"classification">> \o NotifyCalls(ctx)
      [] r.exit \in {"after_hours", "escalation"} ->
            <<"classification", "manager_availability">> \o NotifyCalls(ctx)
      [] OTHER ->
            <<"classification", "generation">> \o NotifyTimes(ctx, r.notifies)

\* calls made with requests.get / requests.patch (timeout=5) through
\* api_request, straight from the coroutine: get_online_managers at
\* bot_agent.py line 558 and handle_manager_assignment at telegrambot.py
\* line 357.  The completion calls and bot.send_message are awaited.
Synchronous == {"manager_availability", "dialog_assignment"}

\* the loop when a turn with these calls starts
WithTurn(l, calls) ==
    [l EXCEPT !.calls = calls,
              !.phase = IF calls = <<>> THEN "none" ELSE "ready",
              !.turns = @ + 1]

\* a turn starts on a session with or without a dialog_id
LoopTurnBegin ==
    \E o \in Oracles, d \in {NoDialog, DialogOf(TurnChat)} :
        /\ loop.phase = "none"
        /\ loop.thread = "free"
        /\ loop.turns < MaxCalls
        /\ loop' = WithTurn(loop,
                        ExternalCalls(
                            [context EXCEPT !.dialog_id = d],
                            AfterAddMessage(
                                add_message([context EXCEPT !.dialog_id = d],
                                            "user", <<"hi">>),
                                <<"hi">>, Classified(o), o)))
        /\ UNCHANGED <<now, chat_contexts, message_queue, user_messages,
                       user_timers, live, events, lastTurn, lastOracle, frames,
                       gate, cartVars>>

\* the turn issues its next call: an awaited call suspends the task, a
\* synchronous one keeps the thread until the response is there
LoopCall ==
    /\ loop.phase = "ready"
    /\ loop.thread = "free"
    /\ loop' = [loop EXCEPT
                    !.phase = "waiting",
                    !.thread = IF Head(loop.calls) \in Synchronous
                               THEN "turn" ELSE "free"]
    /\ UNCHANGED <<now, chat_contexts, message_queue, user_messages,
                   user_timers, live, events, lastTurn, lastOracle, frames,
                   gate, cartVars>>

\* the response (or the timeout) of the outstanding call arrives
LoopReturn ==
    /\ loop.phase = "waiting"
    /\ loop' = [loop EXCEPT
                    !.calls = Tail(@),
                    !.phase = IF Tail(loop.calls) = <<>> THEN "none" ELSE "ready",
                    !.thread = "free"]
    /\ UNCHANGED <<now, chat_contexts, message_queue, user_messages,
                   user_timers, live, events, lastTurn, lastOracle, frames,
                   gate, cartVars>>

\* the asyncio.sleep(MESSAGE_DELAY) of another chat's process_user_messages
\* task (main.py line 682) runs out
LoopTimerDue ==
    /\ loop.due + loop.ran < MaxCalls
    /\ loop' = [loop EXCEPT !.due = @ + 1]
    /\ UNCHANGED <<now, chat_contexts, message_queue, user_messages,
                   user_timers, live, events, lastTurn, lastOracle, frames,
                   gate, cartVars>>

\* the event loop resumes a task whose sleep ran out; it needs the thread
LoopTimerRun ==
    /\ loop.due > 0
    /\ loop.thread = "free"
    /\ loop' = [loop EXCEPT !.due = @ - 1, !.ran = @ + 1]
    /\ UNCHANGED <<now, chat_contexts, message_queue, user_messages,
                   user_timers, live, events, lastTurn, lastOracle, frames,
                   gate, cartVars>>

NextLoop ==
    \/ LoopTurnBegin
    \/ LoopCall
    \/ LoopReturn
    \/ LoopTimerDue
    \/ LoopTimerRun

SpecLoop == Init /\ [][NextLoop]_vars

(***************************************************************************)
(* Claims about the turn handlers and the debounce queue.                  *)
(***************************************************************************)
\* the reset command as the claims word it: "/start" once trimmed and
\* lower-cased
StartCommand(text) == text # NoText /\ Lower(Strip(text)) = <<"/start">>

\* C1: once a chat's session is in MANAGER_CALLED, a text or image turn of
\* that chat that is not the /start command posts nothing to the user and
\* leaves the dialog state MANAGER_CALLED.
C1_ManagerCalledIsSilent ==
    (lastTurn.kind \in {"text", "image"} /\ lastTurn.pre = "MANAGER_CALLED"
        /\ ~lastTurn.reset)
    => (lastTurn.sent = 0 /\ lastTurn.post = "MANAGER_CALLED")

\* C2: the step of handle_client_message that fetches the session, taken
\* with a text that is the /start command, leaves the chat with a brand-new
\* session (state START, empty cart, empty history, created now), whatever
\* the session was before; and no turn with that text ends at the
\* MANAGER_CALLED rule.
C2_StartReplacesSession ==
    /\ [][\A chat_id \in Chats :
            (/\ chat_id \in DOMAIN user_timers
             /\ user_timers[chat_id].pc = "text_begin"
             /\ chat_id \in DOMAIN user_timers'
             /\ user_timers'[chat_id].pc = "text_run"
             /\ StartCommand(user_timers'[chat_id].combined_text))
            => (/\ chat_id \in DOMAIN chat_contexts'
                /\ chat_contexts'[chat_id].state = "START"
                /\ chat_contexts'[chat_id].cart = <<>>
                /\ chat_contexts'[chat_id].messages = <<>>
                /\ chat_contexts'[chat_id].dialog_id = NoDialog
                /\ chat_contexts'[chat_id].created_at = now)]_vars
    /\ [](lastTurn.reset => lastTurn.exit # "manager_called")

\* a /start turn of a session that was in MANAGER_CALLED has run: the session
\* is in START again and the user was answered
C2_Witness ==
    /\ lastTurn.kind = "text"
    /\ lastTurn.reset
    /\ lastTurn.pre = "MANAGER_CALLED"
    /\ lastTurn.post = "START"
    /\ lastTurn.sent = 1

\* the texts of a pending list, in the order they were appended
ExpectedTexts(batch) ==
    LET rows == SelectSeq(batch, LAMBDA m : m[1] # NoText)
    IN  [i \in 1..Len(rows) |-> rows[i][1]]

\* texts with a newline between neighbours, built from the right
RECURSIVE ExpectedJoin(_)
ExpectedJoin(texts) ==
    IF Len(texts) = 1 THEN texts[1]
    ELSE ExpectedJoin(SubSeq(texts, 1, Len(texts) - 1))
            \o <<"\n">> \o texts[Len(texts)]

\* C3: the texts that were in a chat's pending list when its timer fired are
\* handed to handle_client_message in exactly one call, joined with
\* newlines in the order they arrived (no call when the list held no text).
C3_BatchDeliveredOnce ==
    \A chat_id \in DOMAIN user_timers :
        user_timers[chat_id].pc = "finally"
        => user_timers[chat_id].calls =
              IF ExpectedTexts(user_timers[chat_id].batch) = <<>> THEN <<>>
              ELSE <<ExpectedJoin(ExpectedTexts(user_timers[chat_id].batch))>>

\* a task has finished a list of two different texts with an image between
\* them
C3_Witness ==
    \E chat_id \in DOMAIN user_timers :
        /\ user_timers[chat_id].pc = "finally"
        /\ Len(user_timers[chat_id].batch) = 3
        /\ user_timers[chat_id].batch[1][1] = <<"hi">>
        /\ user_timers[chat_id].batch[2][1] = NoText
        /\ user_timers[chat_id].batch[3][1] = <<" ", "/START">>
        /\ user_timers[chat_id].calls = << <<"hi", "\n", " ", "/START">> >>

\* C8: a text turn of a session not in MANAGER_CALLED whose message is
\* classified order_question or call_request calls notify_seller once,
\* leaves the session in MANAGER_CALLED and posts nothing to the user.
C8_SilentEscalation ==
    (/\ lastTurn.kind = "text"
     /\ lastTurn.exit # "empty_message"
     /\ ~lastTurn.review
     /\ lastTurn.pre # "MANAGER_CALLED"
     /\ lastOracle.category \in {"order_question", "call_request"})
    => (lastTurn.notifies = 1 /\ lastTurn.post = "MANAGER_CALLED"
        /\ lastTurn.sent = 0)

\* C9: a text turn whose message is classified reclamation at or after the
\* closing hour with no manager online posts exactly one message, calls
\* notify_seller, and leaves the dialog state as it was, not MANAGER_CALLED.
C9_AfterHoursReply ==
    (/\ lastTurn.kind = "text"
     /\ lastTurn.exit # "empty_message"
     /\ ~lastTurn.review
     /\ ~lastTurn.reset
     /\ lastTurn.pre \notin {"MANAGER_CALLED", "absent"}
     /\ lastOracle.category = "reclamation"
     /\ lastOracle.hour >= WorkingHoursEnd
     /\ lastOracle.online = 0)
    => (lastTurn.sent = 1 /\ lastTurn.notifies >= 1
        /\ lastTurn.post = lastTurn.pre)

\* C10: a text turn whose text is the review-request template posts
\* nothing, calls no notify_seller and leaves the fetched session as it was.
C10_ReviewTemplateIgnored ==
    (lastTurn.kind = "text" /\ lastTurn.review)
    => (lastTurn.sent = 0 /\ lastTurn.notifies = 0 /\ lastTurn.same)

\* a text turn that is neither empty, nor the review template, nor of a
\* session that was in MANAGER_CALLED
OrdinaryTextTurn ==
    /\ lastTurn.kind = "text"
    /\ lastTurn.exit # "empty_message"
    /\ ~lastTurn.review
    /\ lastTurn.pre # "MANAGER_CALLED"

\* C11: an automated text turn (category none, the generation call returns)
\* ends by posting either the generated reply or the upsell message, never
\* neither; when it is the upsell message the session ends the turn in
\* COMPLETED.
C11_ExactlyOneOfReplyAndUpsell ==
    (/\ OrdinaryTextTurn
     /\ lastOracle.category = "none"
     /\ ~lastOracle.classifyFails
     /\ ~lastOracle.runnerFails)
    => (/\ lastTurn.exit \in {"reply", "upsell"}
        /\ lastTurn.sent >= 1
        /\ (lastTurn.exit = "upsell" => lastTurn.post = "COMPLETED"))

\* the tool calls add_to_cart of a catalog plant, then order
AddThenOrder ==
    <<ToolCall("add_to_cart", <<"f", "x">>, 1, "order", TRUE),
      ToolCall("order", NameFx, 1, "order", TRUE)>>

\* C12: a text turn in which the agent adds a catalog plant to the cart and
\* then orders ends with the session in COMPLETED and the cart empty, the
\* order having been notified.
C12_AddThenOrderCompletes ==
    (/\ OrdinaryTextTurn
     /\ lastOracle.category = "none"
     /\ ~lastOracle.classifyFails
     /\ ~lastOracle.runnerFails
     /\ lastOracle.script = AddThenOrder)
    => (/\ lastTurn.post = "COMPLETED"
        /\ lastTurn.cart = 0
        /\ lastTurn.notifies = 1)

\* C13: no step writes to an expired session: a step that finds a chat's
\* session expired and changes it leaves a session that is not expired (a
\* fresh one).
C13_ExpiredSessionNeverWritten ==
    [][\A chat_id \in Chats :
        (/\ chat_id \in DOMAIN chat_contexts
         /\ is_expired(chat_contexts[chat_id], now)
         /\ chat_id \in DOMAIN chat_contexts'
         /\ chat_contexts'[chat_id] # chat_contexts[chat_id])
        => ~is_expired(chat_contexts'[chat_id], now')]_vars

\* C14: a chat never has two live process_user_messages tasks, and it has
\* one exactly while it has an entry in user_timers.
C14_OneTimerPerChat ==
    \A chat_id \in Chats :
        /\ live[chat_id] <= 1
        /\ (live[chat_id] = 1) <=> (chat_id \in DOMAIN user_timers)

\* a second item was taken for a chat whose task is still asleep, and no
\* second task was created
C14_Witness ==
    \E chat_id \in DOMAIN user_timers :
        /\ user_timers[chat_id].pc = "sleep"
        /\ chat_id \in DOMAIN user_messages
        /\ Len(user_messages[chat_id]) = 2
        /\ live[chat_id] = 1

\* C15: while a turn of a chat is in progress (its task is between fetching
\* the session and finishing the handler), a step that is not a step of that
\* task leaves the chat's session as it is.
C15_TurnHasExclusiveAccess ==
    [][\A chat_id \in Chats :
        (/\ chat_id \in DOMAIN user_timers
         /\ user_timers[chat_id].pc \in {"image_run", "text_run"}
         /\ user_timers' = user_timers
         /\ chat_id \in DOMAIN chat_contexts)
        => (/\ chat_id \in DOMAIN chat_contexts'
            /\ chat_contexts'[chat_id] = chat_contexts[chat_id])]_vars

\* C16: an event that on_message has started to apply to a chat ends with
\* its update in the session the map holds for that chat: the dialog id,
\* and MANAGER_CALLED when the dialog is assigned or a manager wrote.
C16_NoLostUpdate ==
    [][(frames.ws.pc \in {"fetch", "write"} /\ frames'.ws.pc = "idle")
       => (/\ TurnChat \in DOMAIN chat_contexts'
           /\ chat_contexts'[TurnChat].dialog_id = DialogOf(TurnChat)
           /\ ((frames.ws.ev.assigned \/ frames.ws.ev.sender = "manager")
               => chat_contexts'[TurnChat].state = "MANAGER_CALLED"))]_vars

\* C17: a tool action of the agent applied to a session that is in
\* MANAGER_CALLED leaves it in MANAGER_CALLED.
C17_ManagerCalledIsOneWay ==
    [][(/\ context.state = "MANAGER_CALLED"
        /\ last'.op \in {"tool_add", "tool_remove", "tool_show",
                         "tool_checkout", "tool_order", "tool_suggest"})
       => context'.state = "MANAGER_CALLED"]_vars

C19_ClassifyFailureContinues ==
    (gate.failed /\ gate.exit # "manager_called")
    => gate.exit \in {"reply", "upsell"}

\* C21: an order or preorder whose seller notification reported an error
\* leaves the dialog state and the cart as they were.
C21_FailedNotifyLeavesSession ==
    (last.op = "tool_order" /\ last.ret = "error")
    => (last.stateSame /\ last.cartSame)

\* C22: a text turn whose message is classified into an escalating category
\* with a reply (reclamation, or office_plant for more than one plant),
\* before the closing hour or with a manager online, posts one message,
\* calls notify_seller once and leaves the session in MANAGER_CALLED.
C22_EscalationWithReply ==
    (/\ OrdinaryTextTurn
     /\ ~lastOracle.classifyFails
     /\ lastOracle.category \in {"reclamation", "office_plant"}
     /\ (lastOracle.category = "office_plant" => lastOracle.quantity > 1)
     /\ (\/ lastOracle.hour < WorkingHoursEnd
         \/ (lastOracle.online > 0 /\ ~lastOracle.queryFails)))
    => (/\ lastTurn.exit = "escalation"
        /\ lastTurn.sent = 1
        /\ lastTurn.notifies = 1
        /\ lastTurn.post = "MANAGER_CALLED")

\* C23: a text turn whose text is the rating "5" and that directly follows
\* the turn of the review-request template posts nothing, calls no
\* notify_seller and leaves the fetched session as it was.
C23_RatingAfterReviewIgnored ==
    [][(/\ lastTurn.kind = "text" /\ lastTurn.review
        /\ lastTurn'.kind = "text" /\ lastTurn'.rating
        /\ lastTurn'.pre # "MANAGER_CALLED")
       => (lastTurn'.sent = 0 /\ lastTurn'.notifies = 0 /\ lastTurn'.same)]_vars

\* C24: a message for which the classifier answers pot_request ends its
\* turn with the catalog link, without a notify_seller call and with the
\* dialog state as it was.
C24_PotRequestGetsLink ==
    (gate.word = "pot_request" /\ ~gate.failed /\ gate.exit # "manager_called")
    => (gate.exit = "pot_request" /\ gate.sent = 1 /\ context.state = gate.pre)

\* C25: a text turn whose message is classified office_plant with a
\* quantity of one or less runs the ordinary automated turn: it ends with
\* the agent's reply or the upsell, and not in MANAGER_CALLED.
C25_SingleOfficePlantNotEscalated ==
    (/\ OrdinaryTextTurn
     /\ ~lastOracle.classifyFails
     /\ ~lastOracle.runnerFails
     /\ lastOracle.category = "office_plant"
     /\ lastOracle.quantity <= 1)
    => (lastTurn.exit \in {"reply", "upsell"} /\ lastTurn.post # "MANAGER_CALLED")

ExpectedImages(batch) ==
    LET rows == SelectSeq(batch, LAMBDA m : m[2] # None)
    IN  [i \in 1..Len(rows) |-> rows[i][2]]

\* C26: the urls a task hands to handle_client_image are the image urls of
\* the list it read, one call each, in the order they were appended; no
\* text is handed over while an image is pending or in progress, and a task
\* that is through has handed over every image.
C26_ImagesBeforeText ==
    \A chat_id \in DOMAIN user_timers :
        LET task == user_timers[chat_id]
            images == ExpectedImages(task.batch)
        IN  /\ Len(task.dispatched) <= Len(images)
            /\ task.dispatched = SubSeq(images, 1, Len(task.dispatched))
            /\ (task.pc \in {"image_begin", "image_run"} => task.calls = <<>>)
            /\ (task.pc \in {"text_begin", "text_run", "finally"}
                => task.dispatched = images)

\* a task is through with a list of an image, a text and another image: both
\* images were handed over in arrival order, and the text after them
C26_Witness ==
    \E chat_id \in DOMAIN user_timers :
        /\ user_timers[chat_id].pc = "finally"
        /\ Len(user_timers[chat_id].batch) = 3
        /\ user_timers[chat_id].batch[1][2] = "img2"
        /\ user_timers[chat_id].batch[2][1] = <<"hi">>
        /\ user_timers[chat_id].batch[3][2] = "img"
        /\ user_timers[chat_id].dispatched = <<"img2", "img">>
        /\ user_timers[chat_id].calls = << <<"hi">> >>

\* C27: a chat without an entry in user_timers has an empty pending list.
C27_NoTimerNoPending ==
    \A chat_id \in Chats :
        chat_id \notin DOMAIN user_timers
        => (chat_id \notin DOMAIN user_messages \/ user_messages[chat_id] = <<>>)



C30_ChangeStateFrame ==
    /\ \A s \in DialogState, p \in PreferenceInputs :
          LET c0 == [context EXCEPT !.desired_size = p[1],
                                    !.desired_location = p[2]]
              c == change_state(c0, s)
          IN  /\ s # "COMPLETED" => c.cart = c0.cart
              /\ s \in {"START", "PLANT_SEARCH"} =>
                    IF c0.state \notin {"START", "PLANT_SEARCH", "CART_MANAGEMENT"}
                    THEN c.desired_size = None /\ c.desired_location = None
                    ELSE c.desired_size = p[1] /\ c.desired_location = p[2]
    /\ (last.op = "change_state" /\ last.ret # "COMPLETED") => last.cartSame

\* a session with a plant in the cart entered PLANT_SEARCH from a state
\* other than START, PLANT_SEARCH and CART_MANAGEMENT
C30_Witness ==
    /\ last.op = "change_state"
    /\ last.ret = "PLANT_SEARCH"
    /\ ~last.fromSearch
    /\ context.state = "PLANT_SEARCH"
    /\ context.cart # <<>>
    /\ context.desired_size = None
    /\ context.desired_location = None


\* C31: change_state from OUT_OF_STOCK to a different state clears
\* out_of_stock_plant, out_of_stock_plants and preorder_info, and
\* change_state from OUT_OF_STOCK to OUT_OF_STOCK keeps all three.  Checked
\* on the session as it stands in OUT_OF_STOCK with each out-of-stock
\* content, and on the change_state calls actually made.
C31_LeavingOutOfStockClears ==
    /\ context.state = "OUT_OF_STOCK" =>
          \A s \in DialogState, i \in OutOfStockInputs :
              LET c0 == [context EXCEPT !.out_of_stock_plant = i[1],
                                        !.out_of_stock_plants = i[2],
                                        !.preorder_info = i[3]]
                  c == change_state(c0, s)
              IN  IF s # "OUT_OF_STOCK"
                  THEN /\ c.out_of_stock_plant = NoPlant
                       /\ c.out_of_stock_plants = <<>>
                       /\ c.preorder_info = None
                  ELSE /\ c.out_of_stock_plant = i[1]
                       /\ c.out_of_stock_plants = i[2]
                       /\ c.preorder_info = i[3]
    /\ (last.op = "change_state" /\ last.fromOutOfStock
            /\ last.ret # "OUT_OF_STOCK") =>
          /\ context.out_of_stock_plant = NoPlant
          /\ context.out_of_stock_plants = <<>>
          /\ context.preorder_info = None

\* a session left OUT_OF_STOCK for ORDERING and holds no out-of-stock data
C31_Witness ==
    /\ last.op = "change_state"
    /\ last.fromOutOfStock
    /\ last.ret = "ORDERING"
    /\ context.state = "ORDERING"
    /\ context.out_of_stock_plant = NoPlant
    /\ context.preorder_info = None


\* C32: the count in the header of get_cart_summary is the number of cart
\* entries, each entry is listed once with its quantity and, for a preorder,
\* the preorder annotation; an empty cart gives the 'cart is empty' text.
C32_SummaryCountsEntries ==
    LET summary == get_cart_summary(context)
    IN  IF context.cart = <<>>
        THEN summary.text = "cart_empty"
        ELSE /\ summary.total_items = Len(context.cart)
             /\ Len(summary.items_text) = Len(context.cart)
             /\ \A i \in DOMAIN context.cart :
                   /\ summary.items_text[i].quantity = context.cart[i].quantity
                   /\ summary.items_text[i].preorder
                        = (context.cart[i].type = "preorder")


\* C33: when the remove-from-cart tool action reports "removed", the cart
\* afterwards has no entry with exactly the given name and has lost at
\* least one entry.
C33_RemovedMeansRemoved ==
    (last.op = "tool_remove" /\ last.ret = "removed") =>
        /\ RowsOfName(context.cart, last.name) = {}
        /\ Len(context.cart) < last.preLen


\* C34: every item taken from message_queue into a chat's pending list is
\* eventually taken up by a process_user_messages task of that chat, with no
\* further inbound event needed: a non-empty pending list leads to an empty
\* one.
C34_PendingIsDispatched ==
    \A chat_id \in Chats :
        (chat_id \in DOMAIN user_messages /\ user_messages[chat_id] # <<>>)
            ~> (chat_id \notin DOMAIN user_messages
                    \/ user_messages[chat_id] = <<>>)


C38_StartInBatchRecreates ==
    [][\A chat_id \in Chats :
          (/\ chat_id \in DOMAIN user_timers
           /\ user_timers[chat_id].pc = "text_begin"
           /\ chat_id \in DOMAIN user_timers'
           /\ user_timers'[chat_id].pc = "text_run"
           /\ \E i \in DOMAIN user_timers[chat_id].text_messages :
                 StartCommand(user_timers[chat_id].text_messages[i]))
          => (/\ chat_id \in DOMAIN chat_contexts'
              /\ chat_contexts'[chat_id].messages = <<>>
              /\ chat_contexts'[chat_id].dialog_id = NoDialog
              /\ chat_contexts'[chat_id].created_at = now)]_vars


====
